---------------------------- MODULE Spec2Model ----------------------------
(***************************************************************************)
(* A model of the 2D rigid-circle physics stepper of                       *)
(* physics-engine/app/components/PhysicsEngine.tsx: the body store, the    *)
(* React state and closures that carry the simulation parameters, the      *)
(* requestAnimationFrame loop, and updatePhysics (integration, pairwise    *)
(* collision response, boundary handling).                                 *)
(*                                                                         *)
(* Numbers.  A JavaScript number is modelled as a record [n, d]:           *)
(*   d > 0   the rational n/d in lowest terms,                             *)
(*   d = 0   n = 0 is NaN, n = 1 is +Infinity, n = -1 is -Infinity.        *)
(* The result of +, -, * and / is the exact result on the two operands     *)
(* when the operation can form it as a fraction of denominator at most     *)
(* Grid within the integer range (MaxInt), and otherwise the exact result  *)
(* rounded once to the nearest multiple of 1/Grid, ties away from zero (a  *)
(* double rounds once to 53 significant bits instead).  Math.sqrt is exact *)
(* on the square of a fraction and otherwise Newton's iteration in these   *)
(* numbers, accurate to about one part in Grid.  NaN and the infinities    *)
(* follow IEEE 754: 0/0 is NaN, x/0 is +-Infinity, any comparison with NaN *)
(* is false.                                                               *)
(*                                                                         *)
(* React.  A state setter queues its value; the component renders the      *)
(* queued values later, once for all the setter calls since the last       *)
(* render, and frames and calls of addBody and clearBodies may come in     *)
(* between.  A frame callback, a call through the imperative handle and a  *)
(* render with its effects each run to completion: each is one step.       *)
(***************************************************************************)
EXTENDS Integers, Sequences, FiniteSets

\* ------------------------------------------------------------- numbers

MaxInt == 2147483646 + 1
Grid == 1000 * 1000
DenLimit == 100 * Grid

Abs(i) == IF i < 0 THEN -i ELSE i
Sign(i) == IF i < 0 THEN -1 ELSE IF i > 0 THEN 1 ELSE 0

RECURSIVE Gcd(_, _)
Gcd(a, b) == IF b = 0 THEN a ELSE Gcd(b, a % b)

\* a * b is in the integer range
Fits(a, b) == a = 0 \/ b = 0 \/ Abs(a) <= (MaxInt \div 2) \div Abs(b)

NaN == [n |-> 0, d |-> 0]
PosInf == [n |-> 1, d |-> 0]
NegInf == [n |-> -1, d |-> 0]
IsFinite(a) == a.d # 0
IsNaN(a) == a.d = 0 /\ a.n = 0

\* <<q, r>> with a * b = q * c + r and 0 <= r < c, for 0 <= a < c, b >= 0:
\* directly when a * b is in the integer range, otherwise over the bits of b
\* so that no intermediate exceeds c or q.
RECURSIVE MulDivRem(_, _, _)
MulDivRem(a, b, c) ==
  LET Plus(q, r, x) == IF r >= c - x THEN <<q + 1, r - (c - x)>> ELSE <<q, r + x>>
      Twice(h, x) == IF h[2] >= c - h[2] THEN Plus(2 * h[1] + 1, h[2] - (c - h[2]), x)
                     ELSE Plus(2 * h[1], 2 * h[2], x)
  IN  IF Fits(a, b) THEN <<(a * b) \div c, (a * b) % c>>
      ELSE Twice(MulDivRem(a, b \div 2, c), IF b % 2 = 1 THEN a ELSE 0)

\* <<q, r>> with a * b = q * c + r and 0 <= r < c, for a, b >= 0, c > 0
FloorMulDiv(a, b, c) ==
  LET Wide(g) == <<(a \div c) * b + g[1], g[2]>>
  IN  IF Fits(a, b) THEN <<(a * b) \div c, (a * b) % c>>
      ELSE Wide(MulDivRem(a % c, b, c))

\* a * b / c rounded to the nearest integer (ties away from zero), a, b >= 0, c > 0
MulDiv(a, b, c) ==
  LET Nearest(h) == h[1] + (IF h[2] >= c - h[2] THEN 1 ELSE 0)
  IN  Nearest(FloorMulDiv(a, b, c))

\* the number n/d (d > 0): in lowest terms, rounded to the grid when its
\* denominator exceeds Grid
Q(n, d) ==
  LET Lowest(p, g) == [n |-> p[1] \div g, d |-> p[2] \div g]
      Reduced(p) == Lowest(p, Gcd(Abs(p[1]), p[2]))
  IN  Reduced(IF d \div Gcd(Abs(n), d) <= Grid THEN <<n, d>>
              ELSE <<Sign(n) * MulDiv(Abs(n), Grid, d), Grid>>)

Num(i) == [n |-> i, d |-> 1]
Zero == Num(0)
One == Num(1)

\* the sign of n1/d1 - n2/d2 (d1, d2 > 0), by comparing the integer parts and
\* then, the other way round, the inverses of the fractional parts
RECURSIVE Cmp(_, _, _, _)
Cmp(n1, d1, n2, d2) ==
  LET q1 == n1 \div d1
      q2 == n2 \div d2
      r1 == n1 % d1
      r2 == n2 % d2
  IN  IF q1 # q2 THEN Sign(q1 - q2)
      ELSE IF r1 = 0 \/ r2 = 0 THEN Sign(r1 - r2)
      ELSE Cmp(d2, r2, d1, r1)

\* <<q, r>> with a.n * Grid = q * a.d + r and 0 <= r < a.d: the finite number a
\* is (q + r / a.d) / Grid
GridFloor(a) ==
  LET Signed(h) == IF a.n >= 0 THEN h
                   ELSE IF h[2] = 0 THEN <<-h[1], 0>>
                   ELSE <<-h[1] - 1, a.d - h[2]>>
  IN  Signed(FloorMulDiv(Abs(a.n), Grid, a.d))

\* the sum of the finite numbers a and b as a multiple of 1/Grid, rounded to
\* the nearest (ties away from zero): the whole parts are added and the sum f
\* of the two fractions r/d is compared with 1/2 and with 3/2
RoundSum(a, b) ==
  LET Carry(base, half, threeHalves) ==
        base + (IF threeHalves > 0 \/ (threeHalves = 0 /\ base + 1 >= 0) THEN 2
                ELSE IF threeHalves = 0 THEN 1
                ELSE IF half > 0 \/ (half = 0 /\ base >= 0) THEN 1
                ELSE 0)
      Parts(ga, gb) ==
        Carry(ga[1] + gb[1],
              Cmp(ga[2], a.d, b.d - 2 * gb[2], 2 * b.d),
              Cmp(ga[2], a.d, 3 * b.d - 2 * gb[2], 2 * b.d))
      Both(g) == Parts(g[1], g[2])
  IN  Both([i \in 1..2 |-> GridFloor(IF i = 1 THEN a ELSE b)])

\* n1 * n2 * Grid / (d1 * d2) rounded to the nearest integer (ties away from
\* zero), for n1, n2 >= 0 and d1, d2 > 0.  With n1 * Grid = q1 * d1 + r1,
\* q1 * n2 = q2 * d2 + r2 and r1 * n2 = q3 * d1 + r3 the exact value is
\* q2 + (r2 + q3 + r3 / d1) / d2.
RoundProduct(n1, d1, n2, d2) ==
  LET Up(m, w) ==
        IF m >= d2 - m \/ (m = d2 - 1 - m /\ w[2] >= d1 - w[2]) THEN 1 ELSE 0
      Rest(s, w) == s \div d2 + Up(s % d2, w)
      Low(v, w) == v[1] + Rest(v[2] + w[1], w)
      High(u) == Low(FloorMulDiv(u[1], n2, d2), MulDivRem(u[2], n2, d1))
  IN  High(FloorMulDiv(n1, Grid, d1))


Neg(a) == [n |-> -a.n, d |-> a.d]

Add(a, b) ==
  IF IsNaN(a) \/ IsNaN(b) THEN NaN
  ELSE IF ~IsFinite(a) /\ ~IsFinite(b) THEN (IF a.n = b.n THEN a ELSE NaN)
  ELSE IF ~IsFinite(a) THEN a
  ELSE IF ~IsFinite(b) THEN b
  ELSE LET Fraction(p) == Q(p[1], p[2])
           Over(ma, mb) ==
             IF Fits(a.d, ma) /\ a.d * ma <= DenLimit
                /\ Fits(a.n, ma) /\ Fits(b.n, mb)
             THEN <<a.n * ma + b.n * mb, a.d * ma>>
             ELSE <<RoundSum(a, b), Grid>>
           Common(g) == Over(b.d \div g, a.d \div g)
       IN  Fraction(Common(Gcd(a.d, b.d)))

Sub(a, b) == Add(a, Neg(b))

Mul(a, b) ==
  IF IsNaN(a) \/ IsNaN(b) THEN NaN
  ELSE IF ~IsFinite(a) \/ ~IsFinite(b)
       THEN (IF a.n = 0 \/ b.n = 0 THEN NaN
             ELSE [n |-> Sign(a.n) * Sign(b.n), d |-> 0])
  ELSE LET Fraction(p) == Q(p[1], p[2])
           Over(n1, n2, d1, d2) ==
             IF Fits(n1, n2) /\ Fits(d1, d2) /\ d1 * d2 <= DenLimit
             THEN <<n1 * n2, d1 * d2>>
             ELSE <<Sign(a.n) * Sign(b.n)
                      * RoundProduct(Abs(a.n), a.d, Abs(b.n), b.d), Grid>>
           Cross(g) == Over(a.n \div g[1], b.n \div g[2], a.d \div g[2], b.d \div g[1])
       IN  Fraction(Cross([i \in 1..2 |->
                             IF i = 1 THEN Gcd(Abs(a.n), b.d) ELSE Gcd(Abs(b.n), a.d)]))

Div(a, b) ==
  IF IsNaN(a) \/ IsNaN(b) THEN NaN
  ELSE IF ~IsFinite(b) THEN (IF IsFinite(a) THEN Zero ELSE NaN)
  ELSE IF b.n = 0
       THEN (IF a.n = 0 THEN NaN ELSE [n |-> Sign(a.n), d |-> 0])
  ELSE Mul(a, [n |-> Sign(b.n) * b.d, d |-> Abs(b.n)])

\* a < b; false when either is NaN
Less(a, b) ==
  IF IsNaN(a) \/ IsNaN(b) THEN FALSE
  ELSE IF ~IsFinite(a) \/ ~IsFinite(b)
       THEN (IF ~IsFinite(a) /\ ~IsFinite(b) THEN a.n < b.n
             ELSE IF ~IsFinite(a) THEN a.n < 0 ELSE b.n > 0)
  ELSE Cmp(a.n, a.d, b.n, b.d) < 0

Greater(a, b) == Less(b, a)
\* a >= b and a <= b; false when either is NaN
GreaterEq(a, b) == ~IsNaN(a) /\ ~IsNaN(b) /\ ~Less(a, b)
LessEq(a, b) == ~IsNaN(a) /\ ~IsNaN(b) /\ ~Less(b, a)

\* Math.abs
MathAbs(a) == [n |-> Abs(a.n), d |-> a.d]

\* integer square root (floor), by bisection on [lo, hi]
RECURSIVE ISqrtIn(_, _, _)
ISqrtIn(k, lo, hi) ==
  IF lo >= hi THEN lo
  ELSE LET mid == (lo + hi + 1) \div 2
       IN  IF mid <= k \div mid THEN ISqrtIn(k, mid, hi) ELSE ISqrtIn(k, lo, mid - 1)

ISqrt(k) == ISqrtIn(k, 0, 46340)

\* Newton's iteration s <- (s + a / s) / 2 for the square root of a > 0
RECURSIVE Newton(_, _, _)
Newton(a, s, k) ==
  LET Continue(t) == IF t = s THEN s ELSE Newton(a, t, k - 1)
  IN  IF k = 0 THEN s ELSE Continue(Mul(Add(s, Div(a, s)), [n |-> 1, d |-> 2]))

NewtonSteps == 8

\* Math.sqrt: exact on the square of a fraction, otherwise to the precision of
\* the number model
MathSqrt(a) ==
  IF IsNaN(a) THEN NaN
  ELSE IF ~IsFinite(a) THEN (IF a.n > 0 THEN PosInf ELSE NaN)
  ELSE IF a.n < 0 THEN NaN
  ELSE LET Root(rn, rd) ==
             IF rn * rn = a.n /\ rd * rd = a.d THEN [n |-> rn, d |-> rd]
             ELSE Newton(a, Q(rn + 1, rd), NewtonSteps)
           Roots(r) == Root(r[1], r[2])
       IN  Roots([i \in 1..2 |-> ISqrt(IF i = 1 THEN a.n ELSE a.d)])

\* Math.sqrt(dx ** 2 + dy ** 2), lines 89-92.  The sum of squares is formed as
\* m^2 * (1 + (s/m)^2), m the larger and s the smaller of |dx| and |dy|, so that
\* the intermediate squares stay below MaxInt; the value
\* is the same, and it is 0 exactly when dx = dy = 0.
Hypot(dx, dy) ==
  IF IsNaN(dx) \/ IsNaN(dy) THEN NaN
  ELSE IF ~IsFinite(dx) \/ ~IsFinite(dy) THEN PosInf
  ELSE LET Square(t) == Mul(t, t)
           Scaled(m, s) ==
             IF m.n = 0 THEN Zero
             ELSE Mul(m, MathSqrt(Add(One, Square(Div(s, m)))))
           Ordered(ax, ay, swap) ==
             Scaled(IF swap THEN ay ELSE ax, IF swap THEN ax ELSE ay)
           Magnitudes(ax, ay) == Ordered(ax, ay, Less(ax, ay))
       IN  Magnitudes(MathAbs(dx), MathAbs(dy))

\* ------------------------------------------------------------ the world

\* <canvas width={800} height={600}>
CanvasWidth == 800
CanvasHeight == 600
Width == Num(CanvasWidth)
Height == Num(CanvasHeight)

\* const frictionCoefficient = 0.9
FrictionCoefficient == Q(9, 10)
\* the threshold of "Stop small bounces": Math.abs(v) < 0.1
RestThreshold == Q(1, 10)

\* useState defaults
DefaultGravity == Q(98, 10)
DefaultElasticity == Q(7, 10)

Vec(x, y) == [x |-> x, y |-> y]

\* A Body: id, position, velocity, mass, radius.  Its acceleration and color
\* fields are carried through every operation unchanged and never read by
\* the physics, and are left out.
MakeBody(id, position, velocity, mass, radius) ==
  [id |-> id, position |-> position, velocity |-> velocity,
   mass |-> mass, radius |-> radius]

\* the body the mount effect adds: (400, 50), at rest, mass 10, radius 20
InitialBodySpec ==
  [position |-> Vec(Num(400), Num(50)), velocity |-> Vec(Zero, Zero),
   mass |-> Num(10), radius |-> Num(20)]

\* --------------------------------------------------------- updatePhysics

\* OnGround without the pixel of tolerance: the body's lower edge at the floor
OnGroundAtFloor(body) ==
  GreaterEq(Add(body.position.y, body.radius), Height)

\* "On the ground" and "Against a wall", the tests of the friction model
OnGround(body) ==
  GreaterEq(Add(body.position.y, body.radius), Sub(Height, One))

AgainstWall(body) ==
  \/ GreaterEq(Add(body.position.x, body.radius), Sub(Width, One))
  \/ LessEq(Sub(body.position.x, body.radius), One)

\* the map callback of updatePhysics: gravity, friction, semi-implicit Euler
Integrate(body, deltaTime, gravityMagnitude, frictionEnabled) ==
  LET forceX == Mul(body.mass, Zero)
      forceY == Mul(body.mass, gravityMagnitude)
      accelerationX == Div(forceX, body.mass)
      accelerationY == Div(forceY, body.mass)
      Friction(v, applies) == IF applies THEN Mul(v, FrictionCoefficient) ELSE v
      newVelocityX ==
        Friction(Add(body.velocity.x, Mul(accelerationX, deltaTime)),
                 frictionEnabled /\ OnGround(body))
      newVelocityY ==
        Friction(Add(body.velocity.y, Mul(accelerationY, deltaTime)),
                 frictionEnabled /\ AgainstWall(body))
      Moved(velocity) ==
        [body EXCEPT
           !.velocity = velocity,
           !.position = Vec(Add(body.position.x, Mul(velocity.x, deltaTime)),
                            Add(body.position.y, Mul(velocity.y, deltaTime)))]
  IN  Moved(Vec(newVelocityX, newVelocityY))

\* distance between the centers
Distance(bodyA, bodyB) ==
  Hypot(Sub(bodyA.position.x, bodyB.position.x),
        Sub(bodyA.position.y, bodyB.position.y))

\* the pair is detected as colliding: distance < bodyA.radius + bodyB.radius
Overlapping(bodyA, bodyB) ==
  Less(Distance(bodyA, bodyB), Add(bodyA.radius, bodyB.radius))

\* the collision normal, from A to B, divided by the distance
Normal(bodyA, bodyB) ==
  LET Over(distance) ==
        Vec(Div(Sub(bodyB.position.x, bodyA.position.x), distance),
            Div(Sub(bodyB.position.y, bodyA.position.y), distance))
  IN  Over(Distance(bodyA, bodyB))

\* relative velocity along the normal
DotProduct(bodyA, bodyB) ==
  LET relativeVelocityX == Sub(bodyB.velocity.x, bodyA.velocity.x)
      relativeVelocityY == Sub(bodyB.velocity.y, bodyA.velocity.y)
      Along(normal) ==
        Add(Mul(relativeVelocityX, normal.x), Mul(relativeVelocityY, normal.y))
  IN  Along(Normal(bodyA, bodyB))

\* Approaching written as !(dotProduct >= 0), which NaN passes
ApproachingUnlessSeparating(bodyA, bodyB) ==
  ~GreaterEq(DotProduct(bodyA, bodyB), Zero)

\* "Only resolve if bodies are moving towards each other": dotProduct < 0
Approaching(bodyA, bodyB) == Less(DotProduct(bodyA, bodyB), Zero)

\* the pair is resolved: both tests of the inner loop pass
Resolved(bodyA, bodyB) == Overlapping(bodyA, bodyB) /\ Approaching(bodyA, bodyB)

\* Impulse with the restitution counted twice: -(1 + 2 * elasticity) * dotProduct
ImpulseDoubleRestitution(bodyA, bodyB, elasticity) ==
  Div(Mul(Neg(Add(One, Mul(Num(2), elasticity))), DotProduct(bodyA, bodyB)),
      Add(Div(One, bodyA.mass), Div(One, bodyB.mass)))

\* Impulse without the 1 of (1 + elasticity)
ImpulseRestitutionOnly(bodyA, bodyB, elasticity) ==
  Div(Mul(Neg(elasticity), DotProduct(bodyA, bodyB)),
      Add(Div(One, bodyA.mass), Div(One, bodyB.mass)))

\* the impulse scalar
Impulse(bodyA, bodyB, elasticity) ==
  Div(Mul(Neg(Add(One, elasticity)), DotProduct(bodyA, bodyB)),
      Add(Div(One, bodyA.mass), Div(One, bodyB.mass)))

\* bodyA.velocity -= impulse / bodyA.mass
ImpulseOnA(bodyA, impulseX, impulseY) ==
  Vec(Sub(bodyA.velocity.x, Div(impulseX, bodyA.mass)),
      Sub(bodyA.velocity.y, Div(impulseY, bodyA.mass)))

\* ImpulseOnB dividing by a mass of 1 whatever bodyB.mass is
ImpulseOnBUnitMass(bodyB, impulseX, impulseY) ==
  Vec(Add(bodyB.velocity.x, impulseX), Add(bodyB.velocity.y, impulseY))

\* bodyB.velocity += impulse / bodyB.mass
ImpulseOnB(bodyB, impulseX, impulseY) ==
  Vec(Add(bodyB.velocity.x, Div(impulseX, bodyB.mass)),
      Add(bodyB.velocity.y, Div(impulseY, bodyB.mass)))

\* the body of the inner loop for the pair (bodyA, bodyB): [a, b] after it
Collide(bodyA, bodyB, elasticity) ==
  LET Apply(impulseX, impulseY, separationX, separationY) ==
        [a |-> [bodyA EXCEPT
                  !.velocity = ImpulseOnA(bodyA, impulseX, impulseY),
                  !.position = Vec(Sub(bodyA.position.x, separationX),
                                   Sub(bodyA.position.y, separationY))],
         b |-> [bodyB EXCEPT
                  !.velocity = ImpulseOnB(bodyB, impulseX, impulseY),
                  !.position = Vec(Add(bodyB.position.x, separationX),
                                   Add(bodyB.position.y, separationY))]]
      Separate(normal, impulse, halfOverlap) ==
        Apply(Mul(impulse, normal.x), Mul(impulse, normal.y),
              Mul(halfOverlap, normal.x), Mul(halfOverlap, normal.y))
      Respond(distance) ==
        Separate(Normal(bodyA, bodyB), Impulse(bodyA, bodyB, elasticity),
                 Div(Sub(Add(bodyA.radius, bodyB.radius), distance), Num(2)))
  IN  IF ~Resolved(bodyA, bodyB) THEN [a |-> bodyA, b |-> bodyB]
      ELSE Respond(Distance(bodyA, bodyB))

\* the two nested loops over the pairs i < j, each pair resolved in place
RECURSIVE CollisionLoop(_, _, _, _)
CollisionLoop(bs, i, j, elasticity) ==
  LET Put(r) == [bs EXCEPT ![i] = r.a, ![j] = r.b]
  IN  IF i > Len(bs) THEN bs
      ELSE IF j > Len(bs) THEN CollisionLoop(bs, i + 1, i + 2, elasticity)
      ELSE CollisionLoop(Put(Collide(bs[i], bs[j], elasticity)), i, j + 1, elasticity)

ResolveCollisions(bs, elasticity) == CollisionLoop(bs, 1, 2, elasticity)

\* a reflected velocity component: v *= -elasticity, zeroed below the threshold
Bounce(v, elasticity) ==
  LET Settle(w) == IF Less(MathAbs(w), RestThreshold) THEN Zero ELSE w
  IN  Settle(Mul(v, Neg(elasticity)))

FloorWall(body, elasticity) ==
  IF Greater(Add(body.position.y, body.radius), Height)
  THEN [body EXCEPT !.position.y = Sub(Height, body.radius),
                    !.velocity.y = Bounce(body.velocity.y, elasticity)]
  ELSE body

CeilingWall(body, elasticity) ==
  IF Less(Sub(body.position.y, body.radius), Zero)
  THEN [body EXCEPT !.position.y = body.radius,
                    !.velocity.y = Bounce(body.velocity.y, elasticity)]
  ELSE body

\* RightWall reflecting the velocity without resetting the position
RightWallNoClamp(body, elasticity) ==
  IF Greater(Add(body.position.x, body.radius), Width)
  THEN [body EXCEPT !.velocity.x = Bounce(body.velocity.x, elasticity)]
  ELSE body

RightWall(body, elasticity) ==
  IF Greater(Add(body.position.x, body.radius), Width)
  THEN [body EXCEPT !.position.x = Sub(Width, body.radius),
                    !.velocity.x = Bounce(body.velocity.x, elasticity)]
  ELSE body

LeftWall(body, elasticity) ==
  IF Less(Sub(body.position.x, body.radius), Zero)
  THEN [body EXCEPT !.position.x = body.radius,
                    !.velocity.x = Bounce(body.velocity.x, elasticity)]
  ELSE body

\* the forEach callback of the boundary collision: floor, ceiling, right wall,
\* left wall, each test reading what the one before it wrote
Boundary(body, elasticity) ==
  LeftWall(RightWall(CeilingWall(FloorWall(body, elasticity), elasticity),
                     elasticity), elasticity)

IntegrateAll(bs, deltaTime, gravityMagnitude, frictionEnabled) ==
  [i \in 1..Len(bs) |-> Integrate(bs[i], deltaTime, gravityMagnitude, frictionEnabled)]

BoundaryAll(bs, elasticity) == [i \in 1..Len(bs) |-> Boundary(bs[i], elasticity)]

\* one tick
UpdatePhysics(bs, deltaTime, gravityMagnitude, frictionEnabled, elasticity) ==
  BoundaryAll(
    ResolveCollisions(
      IntegrateAll(bs, deltaTime, gravityMagnitude, frictionEnabled), elasticity),
    elasticity)

\* ------------------------------------------------------------- the ids

\* the digits after "0." of Number.prototype.toString(36) for 0 <= n/d < 1,
\* at most k of them; none for 0, whose string is "0"
RECURSIVE FracDigits36(_, _, _)
FracDigits36(n, d, k) ==
  IF n = 0 \/ k = 0 THEN <<>>
  ELSE <<(n * 36) \div d>> \o FracDigits36((n * 36) % d, d, k - 1)

\* Math.random().toString(36).substr(2, 9) for the random number r: the string
\* as the sequence of its base-36 digits
RandomId(r) == FracDigits36(r.n, r.d, 9)

\* the values Math.random() returns in the model: 0 and 1/36
RandomValues == {Zero, Q(1, 36)}

\* ------------------------------------------------------------- the state

VARIABLES
  bodies,            \* bodiesRef.current
  gravityMagnitude,  \* useState(9.8)
  frictionEnabled,   \* useState(true)
  elasticity,        \* useState(0.7)
  queued,            \* the values the three states take at the next render
  canvas,            \* the circles on the canvas
  callbacks,         \* the frame callbacks requested and neither run nor cancelled
  animationFrameId,  \* animationFrameId.current (0: null)
  lastTime,          \* lastTime.current, in ms
  nextHandle,        \* the handle the next requestAnimationFrame returns
  calls,             \* the number of calls made through the imperative handle
  last               \* the last operation on the store or the loop, the store before
                     \* it and, of a tick, its inputs

vars == <<bodies, gravityMagnitude, frictionEnabled, elasticity, queued, canvas,
          callbacks, animationFrameId, lastTime, nextHandle, calls, last>>

\* the values of the three states: those of a render, or those the setters
\* called since have queued for the next one
Parameters(g, f, e) == [gravityMagnitude |-> g, frictionEnabled |-> f, elasticity |-> e]

\* a gameLoop closure requested under `handle`: it runs the updatePhysics of
\* the render that created it, with that render's parameters
Callback(handle, g, f, e) ==
  [handle |-> handle, gravityMagnitude |-> g, frictionEnabled |-> f, elasticity |-> e]

Op(name, before, deltaTime, g, f, e) ==
  [op |-> name, before |-> before, deltaTime |-> deltaTime,
   gravityMagnitude |-> g, frictionEnabled |-> f, elasticity |-> e]

\* bodiesRef.current.push({ ...newBody, id: Math.random().toString(36).substr(2, 9) })
Push(bs, newBody, r) ==
  Append(bs, MakeBody(RandomId(r), newBody.position, newBody.velocity,
                      newBody.mass, newBody.radius))

\* draw: the canvas is cleared and every body of the store is filled as a
\* circle (the colour is not modelled)
Draw(bs) ==
  [i \in 1..Len(bs) |-> [x |-> bs[i].position.x, y |-> bs[i].position.y,
                         radius |-> bs[i].radius]]

\* cancelAnimationFrame(id) on the set of requested callbacks
CancelAnimationFrame(cbs, id) == {cb \in cbs : cb.handle # id}

\* a cleanup that cancels nothing
CleanupNothing(cbs, id) == cbs

\* the cleanup of the mount effect
Cleanup(cbs, id) == IF id # 0 THEN CancelAnimationFrame(cbs, id) ELSE cbs

\* after the first render: the mount effect has added the initial body and
\* requested the first frame
Init ==
  /\ \E r \in RandomValues : bodies = Push(<<>>, InitialBodySpec, r)
  /\ gravityMagnitude = DefaultGravity
  /\ frictionEnabled = TRUE
  /\ elasticity = DefaultElasticity
  /\ queued = Parameters(DefaultGravity, TRUE, DefaultElasticity)
  /\ canvas = <<>>
  /\ callbacks = {Callback(1, DefaultGravity, TRUE, DefaultElasticity)}
  /\ animationFrameId = 1
  /\ lastTime = 0
  /\ nextHandle = 2
  /\ calls = 0
  /\ last = Op("mount", <<>>, Zero, DefaultGravity, TRUE, DefaultElasticity)

\* ------------------------------------------------------------ the inputs

\* the calls through the imperative handle and the frames requested that a
\* behaviour holds
MaxCalls == 2
MaxHandles == 3

\* what the caller may pass to addBody: a body half a pixel above the floor
\* moving into the right wall, a body one pixel off the left wall moving up
\* and left, and a body wider than the canvas
BodySpecs ==
  { [position |-> Vec(Num(775), Q(1159, 2)), velocity |-> Vec(Num(60), Num(20)),
     mass |-> Num(5), radius |-> Num(20)],
    [position |-> Vec(Num(21), Num(25)), velocity |-> Vec(Num(-40), Num(-60)),
     mass |-> Num(5), radius |-> Num(20)],
    [position |-> Vec(Num(400), Num(300)), velocity |-> Vec(Zero, Zero),
     mass |-> Num(20), radius |-> Num(400)] }

GravityValues == {Zero, DefaultGravity}
ElasticityValues == {DefaultElasticity, One}

\* the time between two frames, in ms
FrameIntervals == {500}

\* ----------------------------------------------------------- the actions

\* addBody, through the imperative handle
AddBody(newBody, r) ==
  /\ calls < MaxCalls
  /\ calls' = calls + 1
  /\ bodies' = Push(bodies, newBody, r)
  /\ last' = Op("addBody", bodies, Zero, gravityMagnitude, frictionEnabled, elasticity)
  /\ UNCHANGED <<gravityMagnitude, frictionEnabled, elasticity, queued, canvas,
                 callbacks, animationFrameId, lastTime, nextHandle>>

\* clearBodies, through the imperative handle
ClearBodies ==
  /\ calls < MaxCalls
  /\ calls' = calls + 1
  /\ bodies' = <<>>
  /\ last' = Op("clearBodies", bodies, Zero, gravityMagnitude, frictionEnabled, elasticity)
  /\ UNCHANGED <<gravityMagnitude, frictionEnabled, elasticity, queued, canvas,
                 callbacks, animationFrameId, lastTime, nextHandle>>

\* A frame: the browser runs the requested callback cb at time currentTime.
\* The callback runs to completion: it updates the store, draws the updated
\* store and, last, requests the next frame.
GameLoop(cb, interval) ==
  /\ cb \in callbacks
  /\ nextHandle <= MaxHandles
  /\ LET currentTime == lastTime + interval
         lt == IF lastTime = 0 THEN currentTime ELSE lastTime
         deltaTime == Q(currentTime - lt, 1000)
     IN  /\ lastTime' = currentTime
         /\ bodies' = UpdatePhysics(bodies, deltaTime, cb.gravityMagnitude,
                                    cb.frictionEnabled, cb.elasticity)
         /\ last' = Op("gameLoop", bodies, deltaTime, cb.gravityMagnitude,
                       cb.frictionEnabled, cb.elasticity)
  /\ canvas' = Draw(bodies')
  /\ callbacks' = (callbacks \ {cb}) \cup {[cb EXCEPT !.handle = nextHandle]}
  /\ animationFrameId' = nextHandle
  /\ nextHandle' = nextHandle + 1
  /\ UNCHANGED <<gravityMagnitude, frictionEnabled, elasticity, queued, calls>>

\* A state setter, through the imperative handle: the dispatcher of useState
\* queues the value for the next render and returns.  Nothing else changes
\* until the component renders: the store, the states and the requested
\* callback are those of the last render.
Queue(parameters) ==
  /\ calls < MaxCalls
  /\ parameters # queued
  /\ calls' = calls + 1
  /\ queued' = parameters
  /\ UNCHANGED <<bodies, gravityMagnitude, frictionEnabled, elasticity, canvas,
                 callbacks, animationFrameId, lastTime, nextHandle, last>>

SetGravityMagnitude(magnitude) == Queue([queued EXCEPT !.gravityMagnitude = magnitude])

SetFrictionEnabled(enabled) == Queue([queued EXCEPT !.frictionEnabled = enabled])

SetElasticity(value) == Queue([queued EXCEPT !.elasticity = value])

\* The component renders the queued values, once for all the setter calls
\* since the last render.  Values equal to those of the last render render
\* nothing new.  Otherwise updatePhysics and gameLoop are created anew (their
\* dependencies changed) and the effect of [gameLoop, addBody] runs its
\* cleanup and then itself: it adds the initial body and requests a frame for
\* the new gameLoop.
Render ==
  /\ queued # Parameters(gravityMagnitude, frictionEnabled, elasticity)
  /\ nextHandle <= MaxHandles
  /\ gravityMagnitude' = queued.gravityMagnitude
  /\ frictionEnabled' = queued.frictionEnabled
  /\ elasticity' = queued.elasticity
  /\ \E r \in RandomValues : bodies' = Push(bodies, InitialBodySpec, r)
  /\ callbacks' = Cleanup(callbacks, animationFrameId)
                    \cup {Callback(nextHandle, queued.gravityMagnitude,
                                   queued.frictionEnabled, queued.elasticity)}
  /\ animationFrameId' = nextHandle
  /\ nextHandle' = nextHandle + 1
  /\ last' = Op("render", bodies, Zero, queued.gravityMagnitude,
                queued.frictionEnabled, queued.elasticity)
  /\ UNCHANGED <<queued, canvas, lastTime, calls>>

Next ==
  \/ \E newBody \in BodySpecs, r \in RandomValues : AddBody(newBody, r)
  \/ ClearBodies
  \/ \E cb \in callbacks, interval \in FrameIntervals : GameLoop(cb, interval)
  \/ \E magnitude \in GravityValues : SetGravityMagnitude(magnitude)
  \/ \E enabled \in BOOLEAN : SetFrictionEnabled(enabled)
  \/ \E value \in ElasticityValues : SetElasticity(value)
  \/ Render

Spec == Init /\ [][Next]_vars

\* ------------------------------------------------- the resting scenario

\* updatePhysics called over and over with deltaTime = 1/60 on the store of
\* the initial state: the single body at (400, 50), gravity 9.8, elasticity 0.7
FixedStep == Q(1, 60)

\* what a step records of itself
StepRecord ==
  last' = Op("gameLoop", bodies, FixedStep, gravityMagnitude, frictionEnabled,
             elasticity)

Step ==
  /\ StepRecord
  /\ bodies' = UpdatePhysics(bodies, FixedStep, gravityMagnitude, frictionEnabled,
                             elasticity)
  /\ UNCHANGED <<gravityMagnitude, frictionEnabled, elasticity, queued, canvas,
                 callbacks, animationFrameId, lastTime, nextHandle, calls>>

\* Every frame requests the next one, so the stepping never stops.  Every step
\* of SpecRest is a Step, Step implies StepRecord, and the store never equals
\* the store before the last step where that matters (a body in motion, or the
\* final alternation), so weak fairness of StepRecord is weak fairness of Step;
\* it is stated on StepRecord because its enabledness is decided without
\* evaluating updatePhysics.
SpecRest == Init /\ [][Step]_vars /\ WF_last(StepRecord)

\* ------------------------------------------- the collision response alone

\* The collision loop of updatePhysics applied once to a store of two bodies:
\* body A at (100, 100) and body B displaced from it, both of radius 10.
PairOffsets ==
  {Vec(Num(15), Zero), Vec(Zero, Zero), Vec(Num(9), Num(12)),
   Vec(Zero, Num(-12)), Vec(Num(30), Zero)}
PairVelocitiesA == {Vec(Num(5), Zero), Vec(Num(3), Num(4)), Vec(Num(-5), Zero), Vec(Zero, Num(-2))}
PairVelocitiesB == {Vec(Num(-5), Zero), Vec(Num(-3), Num(-4)), Vec(Num(5), Zero), Vec(Zero, Num(2))}
PairMassesA == {Num(2), Num(3)}
PairMassesB == {Num(2), Q(1, 2)}
PairElasticities == {Zero, Q(1, 2), One, Q(3, 2)}

InitPair ==
  /\ \E off \in PairOffsets, va \in PairVelocitiesA, vb \in PairVelocitiesB,
        ma \in PairMassesA, mb \in PairMassesB :
       bodies = << MakeBody(<<1>>, Vec(Num(100), Num(100)), va, ma, Num(10)),
                   MakeBody(<<2>>, Vec(Add(Num(100), off.x), Add(Num(100), off.y)),
                            vb, mb, Num(10)) >>
  /\ gravityMagnitude = Zero
  /\ frictionEnabled = FALSE
  /\ elasticity \in PairElasticities
  /\ queued = Parameters(gravityMagnitude, frictionEnabled, elasticity)
  /\ canvas = <<>>
  /\ callbacks = {}
  /\ animationFrameId = 0
  /\ lastTime = 0
  /\ nextHandle = 1
  /\ calls = 0
  /\ last = Op("addBody", <<>>, Zero, Zero, FALSE, elasticity)

ResolveStep ==
  /\ last.op = "addBody"
  /\ bodies' = ResolveCollisions(bodies, elasticity)
  /\ last' = Op("resolveCollisions", bodies, Zero, gravityMagnitude, frictionEnabled,
                elasticity)
  /\ UNCHANGED <<gravityMagnitude, frictionEnabled, elasticity, queued, canvas,
                 callbacks, animationFrameId, lastTime, nextHandle, calls>>

SpecPair == InitPair /\ [][ResolveStep]_vars

\* the pair before and after the collision loop
PairResolved == last.op = "resolveCollisions"
BeforeA == last.before[1]
BeforeB == last.before[2]

Momentum(bodyA, bodyB) ==
  Vec(Add(Mul(bodyA.mass, bodyA.velocity.x), Mul(bodyB.mass, bodyB.velocity.x)),
      Add(Mul(bodyA.mass, bodyA.velocity.y), Mul(bodyB.mass, bodyB.velocity.y)))

KineticEnergy(body) ==
  Mul(Q(1, 2), Mul(body.mass, Add(Mul(body.velocity.x, body.velocity.x),
                                  Mul(body.velocity.y, body.velocity.y))))

PairEnergy(bodyA, bodyB) == Add(KineticEnergy(bodyA), KineticEnergy(bodyB))

\* ------------------------------------------------------------ the claims

\* the last operation was a frame; the store after its integration, and after
\* its collision loop
TickDone == last.op = "gameLoop"
Integrated ==
  IntegrateAll(last.before, last.deltaTime, last.gravityMagnitude, last.frictionEnabled)
BeforeBoundary == ResolveCollisions(Integrated, last.elasticity)

ContainedX(body) ==
  /\ LessEq(body.radius, body.position.x)
  /\ LessEq(body.position.x, Sub(Width, body.radius))

ContainedY(body) ==
  /\ LessEq(body.radius, body.position.y)
  /\ LessEq(body.position.y, Sub(Height, body.radius))

Diameter(body) == Mul(Num(2), body.radius)

\* C1 as stated: after every tick every body of the store, whatever its
\* radius, has radius <= position.x <= width - radius and
\* radius <= position.y <= height - radius.
C1_ContainmentAnyRadius ==
  TickDone => \A i \in 1..Len(bodies) : ContainedX(bodies[i]) /\ ContainedY(bodies[i])

\* C1 amended: after every tick every body is contained on each axis its
\* diameter fits: radius <= position.x <= width - radius when
\* 2 * radius <= width, radius <= position.y <= height - radius when
\* 2 * radius <= height.
C1_Containment ==
  TickDone =>
    \A i \in 1..Len(bodies) :
      /\ LessEq(Diameter(bodies[i]), Width) => ContainedX(bodies[i])
      /\ LessEq(Diameter(bodies[i]), Height) => ContainedY(bodies[i])

\* a tick whose integration and collisions left a body that fits the canvas
\* outside it, on both axes
C1_Witness ==
  /\ TickDone
  /\ Greater(last.deltaTime, Zero)
  /\ \E i \in 1..Len(bodies) :
       /\ LessEq(Diameter(bodies[i]), Height)
       /\ ~ContainedX(BeforeBoundary[i])
       /\ ~ContainedY(BeforeBoundary[i])

\* C2: after clearBodies the store is empty, addBody appends exactly one body,
\* and the ids of the bodies in the store are non-empty and pairwise distinct.
C2_StoreLifecycle ==
  /\ last.op = "clearBodies" => Len(bodies) = 0
  /\ last.op = "addBody" =>
       /\ Len(bodies) = Len(last.before) + 1
       /\ SubSeq(bodies, 1, Len(last.before)) = last.before
  /\ \A i \in 1..Len(bodies) : bodies[i].id # <<>>
  /\ \A i, j \in 1..Len(bodies) : i # j => bodies[i].id # bodies[j].id

\* the body rests on the floor: position.y = height - radius, |velocity.y| < 0.1
AtRest(body) ==
  /\ body.position.y = Sub(Height, body.radius)
  /\ Less(MathAbs(body.velocity.y), RestThreshold)

\* C3: the single body of the initial store, stepped with dt = 1/60, eventually
\* reaches and then stays in states where position.y = 580 and
\* |velocity.y| < 0.1 after every tick.
C3_ComesToRest == <>[](\A i \in 1..Len(bodies) : AtRest(bodies[i]))

FiniteBody(body) ==
  /\ IsFinite(body.position.x) /\ IsFinite(body.position.y)
  /\ IsFinite(body.velocity.x) /\ IsFinite(body.velocity.y)

\* two bodies of the store have the same center
CoincidentPair(bs) ==
  \E i, j \in 1..Len(bs) : i < j /\ bs[i].position = bs[j].position

\* C4: a tick whose collision step meets two bodies with the same center
\* (distance 0) leaves every position and velocity component a finite number.
C4_ZeroDistanceFinite ==
  (TickDone /\ CoincidentPair(Integrated)) =>
    \A i \in 1..Len(bodies) : FiniteBody(bodies[i])

\* a tick met two overlapping bodies at distance 0, for which dotProduct is
\* NaN, and left every body finite
C4_Witness ==
  /\ TickDone
  /\ \E i, j \in 1..Len(Integrated) :
       /\ i < j
       /\ Integrated[i].position = Integrated[j].position
       /\ Distance(Integrated[i], Integrated[j]) = Zero
       /\ Overlapping(Integrated[i], Integrated[j])
       /\ IsNaN(DotProduct(Integrated[i], Integrated[j]))
  /\ \A i \in 1..Len(bodies) : FiniteBody(bodies[i])

\* C5: for a pair the resolver resolves (overlapping and approaching),
\* massA * velA + massB * velB is the same vector before and after.
C5_MomentumConserved ==
  (PairResolved /\ Resolved(BeforeA, BeforeB)) =>
    Momentum(bodies[1], bodies[2]) = Momentum(BeforeA, BeforeB)

\* a resolved pair of unequal masses whose velocities changed
C5_Witness ==
  /\ PairResolved
  /\ Resolved(BeforeA, BeforeB)
  /\ BeforeA.mass # BeforeB.mass
  /\ bodies[1].velocity # BeforeA.velocity
  /\ bodies[2].velocity # BeforeB.velocity

ElasticityInUnitInterval == LessEq(Zero, last.elasticity) /\ LessEq(last.elasticity, One)
EnergyBefore == PairEnergy(BeforeA, BeforeB)
EnergyAfter == PairEnergy(bodies[1], bodies[2])

\* C6 as stated: for elasticity in [0, 1] and any colliding (overlapping)
\* pair, the kinetic energy after the collision step is <= the energy before,
\* with equality if and only if elasticity = 1.
C6_EnergyAnyCollidingPair ==
  (PairResolved /\ ElasticityInUnitInterval /\ Overlapping(BeforeA, BeforeB)) =>
    /\ LessEq(EnergyAfter, EnergyBefore)
    /\ (EnergyAfter = EnergyBefore) <=> (last.elasticity = One)

\* C6 amended: for elasticity in [0, 1], a pair the resolver resolves
\* (overlapping and approaching) has kinetic energy after <= before, with
\* equality if and only if elasticity = 1; a pair it does not resolve keeps
\* its kinetic energy.
C6_EnergyNonIncrease ==
  (PairResolved /\ ElasticityInUnitInterval) =>
    IF Resolved(BeforeA, BeforeB)
    THEN /\ LessEq(EnergyAfter, EnergyBefore)
         /\ (EnergyAfter = EnergyBefore) <=> (last.elasticity = One)
    ELSE EnergyAfter = EnergyBefore

\* a resolved pair that lost energy at elasticity 1/2
C6_Witness ==
  /\ PairResolved
  /\ Resolved(BeforeA, BeforeB)
  /\ last.elasticity = Q(1, 2)
  /\ Less(EnergyAfter, EnergyBefore)

\* equal masses, velocities v and -v along the line of centers, approaching
HeadOn(bodyA, bodyB) ==
  /\ bodyA.mass = bodyB.mass
  /\ bodyB.velocity = Vec(Neg(bodyA.velocity.x), Neg(bodyA.velocity.y))
  /\ Mul(bodyA.velocity.x, Sub(bodyB.position.y, bodyA.position.y))
       = Mul(bodyA.velocity.y, Sub(bodyB.position.x, bodyA.position.x))
  /\ Overlapping(bodyA, bodyB)
  /\ Approaching(bodyA, bodyB)

\* C7: two overlapping bodies of equal mass approaching head-on with
\* elasticity 1 leave the collision step with their velocities exchanged.
C7_VelocityExchange ==
  (PairResolved /\ last.elasticity = One /\ HeadOn(BeforeA, BeforeB)) =>
    /\ bodies[1].velocity = BeforeB.velocity
    /\ bodies[2].velocity = BeforeA.velocity

\* a head-on pair off the axes (centers 9 and 12 apart) exchanged velocities
C7_Witness ==
  /\ PairResolved
  /\ last.elasticity = One
  /\ HeadOn(BeforeA, BeforeB)
  /\ BeforeA.position.x # BeforeB.position.x
  /\ BeforeA.position.y # BeforeB.position.y
  /\ bodies[1].velocity = BeforeB.velocity
  /\ bodies[1].velocity # BeforeA.velocity

\* the velocity the Integrator leaves a body with when friction applies on
\* the ground condition g and the wall condition w
FrictionRule(body, g, w) ==
  LET vx == body.velocity.x
      vy == Add(body.velocity.y, Mul(last.gravityMagnitude, last.deltaTime))
  IN  Vec(IF last.frictionEnabled /\ g THEN Mul(vx, Q(9, 10)) ELSE vx,
          IF last.frictionEnabled /\ w THEN Mul(vy, Q(9, 10)) ELSE vy)

\* C8 as stated: with friction enabled the Integrator scales velocity.x by 0.9
\* exactly when position.y + radius >= height and velocity.y exactly when
\* position.x + radius >= width or position.x - radius <= 0; with friction
\* disabled it scales neither and leaves velocity.x unchanged.
C8_FrictionAtTheBoundary ==
  TickDone =>
    \A i \in 1..Len(last.before) :
      LET body == last.before[i]
      IN  Integrated[i].velocity =
            FrictionRule(body,
              GreaterEq(Add(body.position.y, body.radius), Num(600)),
              \/ GreaterEq(Add(body.position.x, body.radius), Num(800))
              \/ LessEq(Sub(body.position.x, body.radius), Zero))

\* C8 amended: the thresholds lie one pixel inside the canvas: velocity.x is
\* scaled exactly when position.y + radius >= height - 1, velocity.y exactly
\* when position.x + radius >= width - 1 or position.x - radius <= 1.
C8_FrictionRule ==
  TickDone =>
    \A i \in 1..Len(last.before) :
      LET body == last.before[i]
      IN  Integrated[i].velocity =
            FrictionRule(body,
              GreaterEq(Add(body.position.y, body.radius), Num(599)),
              \/ GreaterEq(Add(body.position.x, body.radius), Num(799))
              \/ LessEq(Sub(body.position.x, body.radius), One))

\* a tick with friction scaled the velocity.x of a moving body whose lower
\* edge was within the last pixel above the floor
C8_Witness ==
  /\ TickDone
  /\ last.frictionEnabled
  /\ \E i \in 1..Len(last.before) :
       LET body == last.before[i]
       IN  /\ GreaterEq(Add(body.position.y, body.radius), Num(599))
           /\ Less(Add(body.position.y, body.radius), Num(600))
           /\ body.velocity.x # Zero
           /\ Integrated[i].velocity.x = Mul(body.velocity.x, Q(9, 10))

\* C9: at most one frame callback is requested at any moment, and it is the
\* one animationFrameId names: after any parameter changes no loop of an
\* earlier render is still requested beside the loop of the latest one.  A
\* frame callback that has run has updated the store exactly once, has drawn
\* the updated store, and the one callback requested is the one it requested
\* last, for the same loop.
C9_OneLoop ==
  /\ Cardinality(callbacks) <= 1
  /\ \A cb \in callbacks : cb.handle = animationFrameId
  /\ TickDone =>
       /\ bodies = UpdatePhysics(last.before, last.deltaTime, last.gravityMagnitude,
                                 last.frictionEnabled, last.elasticity)
       /\ canvas = Draw(bodies)
       /\ callbacks = {Callback(nextHandle - 1, last.gravityMagnitude,
                                last.frictionEnabled, last.elasticity)}

\* two setter calls were rendered at once (one initial body was added, one
\* frame was cancelled and one requested), and a frame of the new loop has
\* run with both new values and has drawn the store
C9_Witness ==
  /\ TickDone
  /\ last.gravityMagnitude # DefaultGravity
  /\ last.elasticity # DefaultElasticity
  /\ Len(bodies) = 2
  /\ canvas = Draw(bodies)
  /\ Cardinality(callbacks) = 1
  /\ animationFrameId = 3

\* C10: a parameter setter leaves the store as it was, when it is called and
\* when the render gives its value effect; a tick keeps the number of bodies
\* and their ids, addBody adds one body and clearBodies leaves none.
C10_StoreChangesOnlyByAddAndClear ==
  /\ last.op = "render" => bodies = last.before
  /\ TickDone =>
       /\ Len(bodies) = Len(last.before)
       /\ \A i \in 1..Len(bodies) : bodies[i].id = last.before[i].id
  /\ last.op = "addBody" => Len(bodies) = Len(last.before) + 1
  /\ last.op = "clearBodies" => Len(bodies) = 0

=============================================================================
